---- MODULE Spec2Model ----
(***************************************************************************)
(* PicnicHood: the community membership and delivery-time voting handlers  *)
(* of src/controllers/communityController.js, over the Community and User  *)
(* collections.                                                            *)
(*                                                                         *)
(* A handler is an async function: it runs without interruption between    *)
(* two awaits, and every await is a round trip to the database (findById,  *)
(* save).  Each action below is one such round trip of one request: the    *)
(* database operation it performs together with the synchronous code that  *)
(* follows it up to the next await.  Spec runs one request at a time (a     *)
(* sequence of calls); ConcSpec lets the requests of several slots          *)
(* interleave at their awaits.                                             *)
(*                                                                         *)
(* document.save() is Mongoose's: it sends the changes tracked on the       *)
(* loaded document as one update of the stored document, not the whole     *)
(* document.  members.push(x) is sent as $push, an assignment to a path as  *)
(* $set of that path, a path whose value did not change is not sent.  With  *)
(* the default versionKey (__v, the schema does not disable it) a $push     *)
(* increments __v, a $set of a whole array increments __v and requires the  *)
(* stored __v to equal the loaded one, and a $set below an array index      *)
(* requires the stored __v to equal the loaded one; a mismatch is a         *)
(* VersionError, thrown by save().                                          *)
(***************************************************************************)
EXTENDS Integers, Sequences, FiniteSets, TLC

\* ---------------------------------------------------------------- bounds
\* Requests started in one behaviour of Spec.
MaxCalls == 4
\* Requests started in one behaviour of ConcSpec.
MaxConcCalls == 3
\* Roster length of the tally specification.
MaxTally == 4

\* ---------------------------------------------------------------- values
Users == {"u1", "u2", "u3"}
Communities == {"c1", "c2"}
Slots == {1, 2}
SeqSlots == {1}
Null == "null"

\* Community.js:17,29: enum of deliveryTime
DeliveryTimes == {"Morning", "Afternoon", "Evening"}
\* a request body's deliveryTime: an enum value, or the HH:MM text of
\* communityRoutes.js:252, which is not in the enum
TimeInputs == DeliveryTimes \cup {"09:00"}
\* Community.js:24: enum of deliveryDay (two of the seven are drawn)
DayInputs == {"Monday", "Friday"}

\* the catalog's article ids
Articles == {"a1", "a2"}
\* no article is stored under the id
NoArticle == -1
\* a request body's price in cents: Article.js:16 wants min 0
PriceInputs == {-100, 0, 100, 250}
\* users placing orders
OrderUsers == {"u1", "u2"}
\* a request body's items: (article, quantity) pairs, quantity at least 1
ItemInputs ==
    { << >>,
      << [article |-> "a1", quantity |-> 1] >>,
      << [article |-> "a1", quantity |-> 3], [article |-> "a2", quantity |-> 1] >>,
      << [article |-> "a2", quantity |-> 2], [article |-> "a2", quantity |-> 2] >> }

\* no order or article request has been handled
IdleOrderReq ==
    [pc |-> "idle", op |-> "none", user |-> Null, id |-> 0, items |-> << >>,
     article |-> Null, price |-> 0, totalAmount |-> 0, status |-> 0, error |-> ""]

VARIABLES
    Community,   \* the Community collection: id -> stored document
    User,        \* the User collection: id -> stored document
    req,         \* per slot: the request being handled and its position
    calls,       \* requests started so far
    overlap,     \* per slot: the slots whose current request ran while this one did
    overridden,  \* an updatePreferences call has been made
    joined,      \* the last call, if it was a join answered 200: its community, its
                 \* user and the roster it found (kept while that user's leave runs)
    firstJoined, \* per user: the community of the user's first join answered 200
    Article,     \* the Article collection: id -> price in cents, or NoArticle
    Order,       \* the Order collection: the set of stored orders
    oreq,        \* the order or article request being handled, then its answer
    tDoc,        \* tally specification: a community document
    tFresh       \* tally specification: tDoc.preferences was recomputed from tDoc.members

vars == <<Community, User, req, calls, overlap, overridden, joined, firstJoined,
          Article, Order, oreq, tDoc, tFresh>>
dbvars == <<Community, User>>
tallyvars == <<tDoc, tFresh>>
mainvars == <<Community, User, req, calls, overlap, overridden, joined, firstJoined>>
ordervars == <<Article, Order, oreq>>

\* ---------------------------------------------------------------- schema
\* Community.js:21-32: preferences defaults
DefaultPreferences == [deliveryDay |-> "Monday", deliveryTime |-> "Morning"]

\* a community id with no stored document (findById gives null)
NoCommunity ==
    [exists |-> FALSE, members |-> << >>, preferences |-> DefaultPreferences, v |-> 0]

\* communityController.js:11-18: new Community({name, location, members: [...]})
NewCommunity(u) ==
    [exists |-> TRUE,
     members |-> << [user |-> u, deliveryTime |-> "Morning"] >>,
     preferences |-> DefaultPreferences,
     v |-> 0]

\* the changes a loaded document has tracked since it was loaded
NoDelta ==
    [push |-> << >>,
     setMembers |-> FALSE, members |-> << >>,
     at |-> 0, atTime |-> "Morning",
     setDay |-> FALSE, day |-> "Monday",
     setTime |-> FALSE, time |-> "Morning",
     where |-> FALSE, inc |-> FALSE, v |-> 0]

IdleReq ==
    [pc |-> "idle", op |-> "none", community |-> Null, user |-> Null,
     time |-> "Morning", day |-> "Monday",
     loaded |-> NoCommunity, doc |-> NoCommunity, delta |-> NoDelta, status |-> 0]

\* ---------------------------------------------------------------- helpers
\* members.some(member => member.user.equals(userId))
IsMember(members, u) == \E i \in DOMAIN members : members[i].user = u

\* findIndex with its miss taken for a position
MemberIndexNoMiss(members, u) ==
    IF IsMember(members, u)
    THEN CHOOSE i \in DOMAIN members :
            members[i].user = u /\ \A j \in 1..(i - 1) : members[j].user # u
    ELSE Len(members)

\* members.findIndex(member => member.user.equals(userId)); 0 stands for -1
MemberIndex(members, u) ==
    IF IsMember(members, u)
    THEN CHOOSE i \in DOMAIN members :
            members[i].user = u /\ \A j \in 1..(i - 1) : members[j].user # u
    ELSE 0

\* the check of line 68 left out
HasCommunityIgnored(user) == FALSE

\* communityController.js:68: if (user.community)
HasCommunity(user) == user.community # Null

\* the filter dropping the first entry instead of the user's
FilterOutHead(members, u) == IF members = << >> THEN << >> ELSE Tail(members)

\* members.filter(member => !member.user.equals(userId))
RECURSIVE FilterOut(_, _)
FilterOut(members, u) ==
    IF members = << >> THEN << >>
    ELSE IF Head(members).user = u THEN FilterOut(Tail(members), u)
         ELSE << Head(members) >> \o FilterOut(Tail(members), u)

\* timeCounts[t] after the forEach of lines 173-175
TimeCount(members, t) ==
    Cardinality({i \in DOMAIN members : members[i].deliveryTime = t})

\* the comparisons of lines 181 and 185 as >=
MostPopularTimeTieLast(members) ==
    LET morning == TimeCount(members, "Morning")
        afternoon == TimeCount(members, "Afternoon")
        evening == TimeCount(members, "Evening")
        afterAfternoon == IF afternoon >= morning THEN "Afternoon" ELSE "Morning"
        maxVotes == IF afternoon >= morning THEN afternoon ELSE morning
    IN IF evening >= maxVotes THEN "Evening" ELSE afterAfternoon

\* communityController.js:167-187: mostPopularTime
MostPopularTime(members) ==
    LET morning == TimeCount(members, "Morning")
        afternoon == TimeCount(members, "Afternoon")
        evening == TimeCount(members, "Evening")
        afterAfternoon == IF afternoon > morning THEN "Afternoon" ELSE "Morning"
        maxVotes == IF afternoon > morning THEN afternoon ELSE morning
    IN IF evening > maxVotes THEN "Evening" ELSE afterAfternoon

\* communityController.js:166-190: the loaded document after the recomputation
\* (the save of line 191 is the next step of the caller)
updateCommunityDeliveryTime(doc) ==
    [doc EXCEPT !.preferences.deliveryTime = MostPopularTime(doc.members)]

\* the recomputed delivery time not tracked as a change
RecomputeDeltaLost(delta, doc, loaded) == delta

\* the changes of updateCommunityDeliveryTime on a document loaded with `loaded`
\* as its preferences.deliveryTime
RecomputeDelta(delta, doc, loaded) ==
    LET t == MostPopularTime(doc.members)
    IN IF t # loaded THEN [delta EXCEPT !.setTime = TRUE, !.time = t] ELSE delta

\* ---------------------------------------------------------------- save()
IsEmptyDelta(d) ==
    /\ d.push = << >>
    /\ ~d.setMembers
    /\ d.at = 0
    /\ ~d.setDay
    /\ ~d.setTime

\* save() throws VersionError: the update's filter on __v matches no document
VersionError(stored, d) == ~IsEmptyDelta(d) /\ d.where /\ stored.v # d.v

ApplyUpdateKeepDay(stored, d) ==
    LET base == IF d.setMembers THEN d.members
                ELSE IF d.at # 0 /\ d.at \in DOMAIN stored.members
                     THEN [stored.members EXCEPT ![d.at].deliveryTime = d.atTime]
                     ELSE stored.members
    IN [exists |-> TRUE,
        members |-> base \o d.push,
        preferences |->
            [deliveryDay |-> stored.preferences.deliveryDay,
             deliveryTime |-> IF d.setTime THEN d.time ELSE stored.preferences.deliveryTime],
        v |-> IF d.inc THEN stored.v + 1 ELSE stored.v]

\* the stored document after the update save() sends
ApplyUpdate(stored, d) ==
    LET base == IF d.setMembers THEN d.members
                ELSE IF d.at # 0 /\ d.at \in DOMAIN stored.members
                     THEN [stored.members EXCEPT ![d.at].deliveryTime = d.atTime]
                     ELSE stored.members
    IN [exists |-> TRUE,
        members |-> base \o d.push,
        preferences |->
            [deliveryDay |-> IF d.setDay THEN d.day ELSE stored.preferences.deliveryDay,
             deliveryTime |-> IF d.setTime THEN d.time ELSE stored.preferences.deliveryTime],
        v |-> IF d.inc THEN stored.v + 1 ELSE stored.v]

\* ---------------------------------------------------------------- requests
InFlight(s) == req[s].pc \notin {"idle", "done"}

\* a request may start in slot r
CanStart(r) == ~InFlight(r)

\* no join to follow
NoJoin == [community |-> Null, user |-> Null, members |-> << >>]

\* bookkeeping of a request of handler name starting in slot r
Started(r, name, c, u) ==
    /\ calls' = calls + 1
    /\ joined' = IF name = "leave" /\ joined.community = c /\ joined.user = u
                 THEN joined ELSE NoJoin
    /\ overlap' = [s \in Slots |->
                     IF s = r THEN {x \in Slots \ {r} : InFlight(x)}
                     ELSE IF InFlight(s) THEN overlap[s] \cup {r}
                     ELSE overlap[s] \ {r}]

\* res.status(code).json(...): the request of slot r ends
Respond(r, code) == [req[r] EXCEPT !.pc = "done", !.status = code]

\* the request of handler name as it arrives; loaded is what findById answers
Begin(r, name, c, u) ==
    [IdleReq EXCEPT !.op = name, !.community = c, !.user = u,
                    !.loaded = IF c \in Communities /\ name # "create"
                               THEN Community[c] ELSE NoCommunity]


\* `await document.save()` of the request in slot r against the stored community:
\* the update is applied, or save() throws (a storage failure, a VersionError)
\* and the handler's catch answers 500
SaveThrows(r, ok) ==
    \/ (~ok /\ ~IsEmptyDelta(req[r].delta))
    \/ VersionError(Community[req[r].community], req[r].delta)

Saved(r) ==
    IF IsEmptyDelta(req[r].delta) THEN Community
    ELSE [Community EXCEPT ![req[r].community] = ApplyUpdate(@, req[r].delta)]

\* ---------------------------------------------------------------- Init
Init ==
    /\ Community = [c \in Communities |-> NoCommunity]
    /\ User = [u \in Users |-> [community |-> Null]]
    /\ req = [s \in Slots |-> IdleReq]
    /\ calls = 0
    /\ overlap = [s \in Slots |-> {}]
    /\ overridden = FALSE
    /\ joined = NoJoin
    /\ firstJoined = [u \in Users |-> Null]
    /\ Article = [a \in Articles |-> NoArticle]
    /\ Order = {}
    /\ oreq = IdleOrderReq
    /\ tDoc = [NoCommunity EXCEPT !.exists = TRUE]
    /\ tFresh = FALSE

\* ---------------------------------------------------------------- createCommunity
\* communityController.js:6-25
CreateCommunity(r, u, c, ok) ==
    /\ CanStart(r)
    /\ ~Community[c].exists
    /\ Started(r, "create", c, u)
    /\ IF ok
       THEN /\ Community' = [Community EXCEPT ![c] = NewCommunity(u)]
            /\ req' = [req EXCEPT ![r] =
                         [Begin(r, "create", c, u) EXCEPT !.pc = "done", !.status = 201]]
       ELSE /\ Community' = Community
            /\ req' = [req EXCEPT ![r] =
                         [Begin(r, "create", c, u) EXCEPT !.pc = "done", !.status = 500]]
    /\ UNCHANGED <<User, overridden, firstJoined, tallyvars, ordervars>>

\* ---------------------------------------------------------------- joinCommunity
\* communityController.js:53-67: findById, the roster check, then User.findById is awaited
JoinFind(r, u, c) ==
    /\ CanStart(r)
    /\ Started(r, "join", c, u)
    /\ LET community == Community[c]
           b == Begin(r, "join", c, u)
       IN req' = [req EXCEPT ![r] =
            IF ~community.exists THEN [b EXCEPT !.pc = "done", !.status = 404]
            ELSE IF IsMember(community.members, u)
                 THEN [b EXCEPT !.pc = "done", !.status = 400, !.doc = community]
                 ELSE [b EXCEPT !.pc = "join_user", !.doc = community]]
    /\ UNCHANGED <<dbvars, overridden, firstJoined, tallyvars, ordervars>>

\* communityController.js:67-80: the user is loaded and checked, the roster entry is
\* pushed on the loaded community, user.community is set and user.save() is awaited
JoinUser(r) ==
    /\ req[r].pc = "join_user"
    /\ LET user == User[req[r].user]
           entry == [user |-> req[r].user, deliveryTime |-> "Morning"]
       IN req' = [req EXCEPT ![r] =
            IF HasCommunity(user)
            THEN Respond(r, 400)
            ELSE [req[r] EXCEPT
                    !.pc = "join_user_save",
                    !.doc.members = Append(@, entry),
                    !.delta = [NoDelta EXCEPT !.push = << entry >>, !.inc = TRUE]]]
    /\ UNCHANGED <<dbvars, calls, overlap, overridden, joined, firstJoined, tallyvars, ordervars>>

\* communityController.js:79-82: user.save() is applied, community.save() is awaited
JoinUserSave(r, ok) ==
    /\ req[r].pc = "join_user_save"
    /\ IF ok
       THEN /\ User' = [User EXCEPT ![req[r].user].community = req[r].community]
            /\ req' = [req EXCEPT ![r].pc = "join_save"]
       ELSE /\ User' = User
            /\ req' = [req EXCEPT ![r] = Respond(r, 500)]
    /\ UNCHANGED <<Community, calls, overlap, overridden, joined, firstJoined, tallyvars, ordervars>>

\* communityController.js:82-93: community.save() is applied, the answer is sent
JoinSave(r, ok) ==
    /\ req[r].pc = "join_save"
    /\ IF SaveThrows(r, ok)
       THEN /\ Community' = Community
            /\ req' = [req EXCEPT ![r] = Respond(r, 500)]
            /\ UNCHANGED <<joined, firstJoined>>
       ELSE /\ Community' = Saved(r)
            /\ req' = [req EXCEPT ![r] = Respond(r, 200)]
            /\ joined' = [community |-> req[r].community, user |-> req[r].user,
                          members |-> req[r].loaded.members]
            /\ firstJoined' = IF firstJoined[req[r].user] = Null
                              THEN [firstJoined EXCEPT ![req[r].user] = req[r].community]
                              ELSE firstJoined
    /\ UNCHANGED <<User, calls, overlap, overridden, tallyvars, ordervars>>


\* ---------------------------------------------------------------- leaveCommunity
\* communityController.js:99-112: findById, members is assigned the filtered array
\* (a change only if an entry was removed), community.save() is awaited
LeaveFind(r, u, c) ==
    /\ CanStart(r)
    /\ Started(r, "leave", c, u)
    /\ LET community == Community[c]
           b == Begin(r, "leave", c, u)
           kept == FilterOut(community.members, u)
       IN req' = [req EXCEPT ![r] =
            IF ~community.exists THEN [b EXCEPT !.pc = "done", !.status = 404]
            ELSE [b EXCEPT
                    !.pc = "leave_save",
                    !.doc = [community EXCEPT !.members = kept],
                    !.delta = IF kept # community.members
                              THEN [NoDelta EXCEPT !.setMembers = TRUE, !.members = kept,
                                                   !.where = TRUE, !.inc = TRUE,
                                                   !.v = community.v]
                              ELSE NoDelta]]
    /\ UNCHANGED <<dbvars, overridden, firstJoined, tallyvars, ordervars>>

\* communityController.js:112-119 and 166-191: the save is applied; with members left
\* the delivery time is recomputed on the loaded document and the second save is
\* awaited, with none left the answer is sent
LeaveSave(r, ok) ==
    /\ req[r].pc = "leave_save"
    /\ IF SaveThrows(r, ok)
       THEN /\ Community' = Community
            /\ req' = [req EXCEPT ![r] = Respond(r, 500)]
       ELSE /\ Community' = Saved(r)
            /\ LET doc == [req[r].doc EXCEPT
                             !.v = IF req[r].delta.inc THEN @ + 1 ELSE @]
               IN req' = [req EXCEPT ![r] =
                    IF Len(doc.members) > 0
                    THEN [req[r] EXCEPT
                            !.pc = "leave_update",
                            !.doc = updateCommunityDeliveryTime(doc),
                            !.delta = RecomputeDelta(NoDelta, doc,
                                                     doc.preferences.deliveryTime)]
                    ELSE [Respond(r, 200) EXCEPT !.doc = doc, !.delta = NoDelta]]
    /\ UNCHANGED <<User, calls, overlap, overridden, joined, firstJoined, tallyvars, ordervars>>

\* communityController.js:191 called from 116, then 119: the save of the recomputed
\* delivery time is applied, the answer is sent
LeaveUpdate(r, ok) ==
    /\ req[r].pc = "leave_update"
    /\ IF SaveThrows(r, ok)
       THEN /\ Community' = Community
            /\ req' = [req EXCEPT ![r] = Respond(r, 500)]
       ELSE /\ Community' = Saved(r)
            /\ req' = [req EXCEPT ![r] = Respond(r, 200)]
    /\ UNCHANGED <<User, calls, overlap, overridden, joined, firstJoined, tallyvars, ordervars>>

\* ---------------------------------------------------------------- voteForDeliveryTime
\* communityController.js:197-220 and 166-191: findById, findIndex, the member's
\* deliveryTime is assigned, the delivery time is recomputed on the loaded document
\* and community.save() is awaited; save() validates the assigned value against the
\* schema's enum before it sends the update
VoteFind(r, u, c, t) ==
    /\ CanStart(r)
    /\ Started(r, "vote", c, u)
    /\ LET community == Community[c]
           b == [Begin(r, "vote", c, u) EXCEPT !.time = t]
           memberIndex == MemberIndex(community.members, u)
           voted == [community EXCEPT !.members[memberIndex].deliveryTime = t]
           changed == IF community.members[memberIndex].deliveryTime # t
                      THEN [NoDelta EXCEPT !.at = memberIndex, !.atTime = t,
                                           !.where = TRUE, !.v = community.v]
                      ELSE NoDelta
       IN req' = [req EXCEPT ![r] =
            IF ~community.exists THEN [b EXCEPT !.pc = "done", !.status = 404]
            ELSE IF memberIndex = 0
                 THEN [b EXCEPT !.pc = "done", !.status = 403, !.doc = community]
                 ELSE IF t \notin DeliveryTimes
                      THEN [b EXCEPT !.pc = "done", !.status = 500, !.doc = community]
                      ELSE [b EXCEPT
                              !.pc = "vote_save",
                              !.doc = updateCommunityDeliveryTime(voted),
                              !.delta = RecomputeDelta(changed, voted,
                                            community.preferences.deliveryTime)]]
    /\ UNCHANGED <<dbvars, overridden, firstJoined, tallyvars, ordervars>>

\* communityController.js:191 called from 220, then 223-229: the save is applied, the
\* answer is sent
VoteSave(r, ok) ==
    /\ req[r].pc = "vote_save"
    /\ IF SaveThrows(r, ok)
       THEN /\ Community' = Community
            /\ req' = [req EXCEPT ![r] = Respond(r, 500)]
       ELSE /\ Community' = Saved(r)
            /\ req' = [req EXCEPT ![r] = Respond(r, 200)]
    /\ UNCHANGED <<User, calls, overlap, overridden, joined, firstJoined, tallyvars, ordervars>>

\* ---------------------------------------------------------------- updatePreferences
\* communityController.js:144-158: findById, preferences is assigned
\* {deliveryDay, deliveryTime} of the body, community.save() is awaited; save()
\* validates the assigned values against the schema's enums
UpdatePreferencesFind(r, c, day, t) ==
    /\ CanStart(r)
    /\ Started(r, "preferences", c, Null)
    /\ overridden' = TRUE
    /\ LET community == Community[c]
           b == [Begin(r, "preferences", c, Null) EXCEPT !.time = t, !.day = day]
       IN req' = [req EXCEPT ![r] =
            IF ~community.exists THEN [b EXCEPT !.pc = "done", !.status = 404]
            ELSE IF t \notin DeliveryTimes
                 THEN [b EXCEPT !.pc = "done", !.status = 500, !.doc = community]
                 ELSE [b EXCEPT
                         !.pc = "preferences_save",
                         !.doc = [community EXCEPT
                                    !.preferences = [deliveryDay |-> day,
                                                     deliveryTime |-> t]],
                         !.delta = [NoDelta EXCEPT
                             !.setDay = (day # community.preferences.deliveryDay),
                             !.day = day,
                             !.setTime = (t # community.preferences.deliveryTime),
                             !.time = t]]]
    /\ UNCHANGED <<dbvars, firstJoined, tallyvars, ordervars>>

\* communityController.js:158-159: the save is applied, the answer is sent
UpdatePreferencesSave(r, ok) ==
    /\ req[r].pc = "preferences_save"
    /\ IF SaveThrows(r, ok)
       THEN /\ Community' = Community
            /\ req' = [req EXCEPT ![r] = Respond(r, 500)]
       ELSE /\ Community' = Saved(r)
            /\ req' = [req EXCEPT ![r] = Respond(r, 200)]
    /\ UNCHANGED <<User, calls, overlap, overridden, joined, firstJoined, tallyvars, ordervars>>

\* ---------------------------------------------------------------- specifications
\* a request arrives in slot r while fewer than cap have: the handler runs up to
\* the answer of its first await
CreateCommunityCall(r, cap) ==
    /\ calls < cap
    /\ \E u \in Users, c \in Communities, ok \in BOOLEAN : CreateCommunity(r, u, c, ok)
JoinFindCall(r, cap) ==
    /\ calls < cap
    /\ \E u \in Users, c \in Communities : JoinFind(r, u, c)
LeaveFindCall(r, cap) ==
    /\ calls < cap
    /\ \E u \in Users, c \in Communities : LeaveFind(r, u, c)
VoteFindCall(r, cap) ==
    /\ calls < cap
    /\ \E u \in Users, c \in Communities, t \in TimeInputs : VoteFind(r, u, c, t)
UpdatePreferencesFindCall(r, cap) ==
    /\ calls < cap
    /\ \E c \in Communities, day \in DayInputs, t \in TimeInputs :
          UpdatePreferencesFind(r, c, day, t)

\* the handler of slot r resumes after an await
JoinUserSaveStep(r) == \E ok \in BOOLEAN : JoinUserSave(r, ok)
JoinSaveStep(r) == \E ok \in BOOLEAN : JoinSave(r, ok)
LeaveSaveStep(r) == \E ok \in BOOLEAN : LeaveSave(r, ok)
LeaveUpdateStep(r) == \E ok \in BOOLEAN : LeaveUpdate(r, ok)
VoteSaveStep(r) == \E ok \in BOOLEAN : VoteSave(r, ok)
UpdatePreferencesSaveStep(r) == \E ok \in BOOLEAN : UpdatePreferencesSave(r, ok)

Call(r, cap) ==
    \/ CreateCommunityCall(r, cap)
    \/ JoinFindCall(r, cap)
    \/ LeaveFindCall(r, cap)
    \/ VoteFindCall(r, cap)
    \/ UpdatePreferencesFindCall(r, cap)

Resume(r) ==
    \/ JoinUser(r)
    \/ JoinUserSaveStep(r)
    \/ JoinSaveStep(r)
    \/ LeaveSaveStep(r)
    \/ LeaveUpdateStep(r)
    \/ VoteSaveStep(r)
    \/ UpdatePreferencesSaveStep(r)

\* one request at a time
Next ==
    \E r \in SeqSlots :
        \/ Call(r, MaxCalls)
        \/ Resume(r)
Spec == Init /\ [][Next]_vars

\* the requests of the slots interleave at their awaits.  The behaviours start
\* from a state Spec reaches: u1 has created c1 and u2 has joined it.
ConcInit ==
    /\ Community = [c \in Communities |->
                      IF c = "c1"
                      THEN [exists |-> TRUE,
                            members |-> << [user |-> "u1", deliveryTime |-> "Morning"],
                                           [user |-> "u2", deliveryTime |-> "Morning"] >>,
                            preferences |-> DefaultPreferences,
                            v |-> 1]
                      ELSE NoCommunity]
    /\ User = [u \in Users |-> [community |-> IF u = "u2" THEN "c1" ELSE Null]]
    /\ req = [s \in Slots |-> IdleReq]
    /\ calls = 0
    /\ overlap = [s \in Slots |-> {}]
    /\ overridden = FALSE
    /\ joined = NoJoin
    /\ firstJoined = [u \in Users |-> IF u = "u2" THEN "c1" ELSE Null]
    /\ Article = [a \in Articles |-> NoArticle]
    /\ Order = {}
    /\ oreq = IdleOrderReq
    /\ tDoc = [NoCommunity EXCEPT !.exists = TRUE]
    /\ tFresh = FALSE

ConcNext ==
    \E r \in Slots :
        \/ Call(r, MaxConcCalls)
        \/ Resume(r)
ConcSpec == ConcInit /\ [][ConcNext]_vars

\* the recomputation alone, on every roster of delivery times up to MaxTally entries
TallyPush(u, t) ==
    /\ Len(tDoc.members) < MaxTally
    /\ tDoc' = [tDoc EXCEPT !.members = Append(@, [user |-> u, deliveryTime |-> t])]
    /\ tFresh' = FALSE
    /\ UNCHANGED <<mainvars, ordervars>>

TallyRecompute ==
    /\ ~tFresh
    /\ tDoc' = updateCommunityDeliveryTime(tDoc)
    /\ tFresh' = TRUE
    /\ UNCHANGED <<mainvars, ordervars>>

TallyNext ==
    \/ \E t \in DeliveryTimes : TallyPush("u1", t)
    \/ TallyRecompute
TallySpec == Init /\ [][TallyNext]_vars

\* ------------------------------------------------------------ orders, articles
\* Prices are whole cents; the rounding of binary floating point is not modelled.
\* An order's community and deliveryDate are stored as given and read by no handler.

\* bound on the order and article requests of a sequence
MaxOrderCalls == 4

\* the id of an article that was stored and has been deleted (ids are never reused)
DeletedArticle == -2

\* Article.find({_id: {$in: ids}}) reduced to the price map: the price stored under
\* each id that has an article, and nothing (undefined) under any other id
Undefined == -3
articlePriceMap == [a \in Articles |-> IF Article[a] >= 0 THEN Article[a] ELSE Undefined]

PriceMissingNever(articlePrice) == FALSE

\* `!articlePrice`: undefined is falsy, and so is the number 0
PriceMissing(articlePrice) == articlePrice = Undefined \/ articlePrice = 0

\* the reduce over the items throws at the first item whose price is missing
PriceNotFound(items, priceMap) ==
    \E i \in DOMAIN items : PriceMissing(priceMap[items[i].article])

\* the reduce over the items: total + articlePrice * item.quantity, from 0
RECURSIVE TotalAmount(_, _)
TotalAmount(items, priceMap) ==
    IF items = << >> THEN 0
    ELSE TotalAmount(SubSeq(items, 1, Len(items) - 1), priceMap)
         + priceMap[items[Len(items)].article] * items[Len(items)].quantity

OrderMatchesAnyUser(o, id, u) == o.id = id

\* the filter of findOneAndDelete: {_id: req.params.id, user: req.user._id}
OrderMatches(o, id, u) == o.id = id /\ o.user = u

\* an order or article request arrives: none is in flight, and it is counted
OrderStarted ==
    /\ oreq.pc \in {"idle", "done"}
    /\ calls < MaxOrderCalls
    /\ calls' = calls + 1

\* res.status(code).json(...) of the order or article request
OrderRespond(r, code, error) == [r EXCEPT !.pc = "done", !.status = code, !.error = error]

\* the community side, which no order or article handler touches
nonordervars == <<Community, User, req, overlap, overridden, joined, firstJoined, tallyvars>>

\* createArticle: new Article(req.body), save (price must be at least 0), 201
CreateArticle(a, price) ==
    /\ OrderStarted
    /\ Article[a] = NoArticle
    /\ LET r == [IdleOrderReq EXCEPT !.op = "createArticle", !.article = a, !.price = price]
       IN IF price < 0
          THEN /\ Article' = Article
               /\ oreq' = OrderRespond(r, 500, "Error creating article")
          ELSE /\ Article' = [Article EXCEPT ![a] = price]
               /\ oreq' = OrderRespond(r, 201, "")
    /\ UNCHANGED <<Order, nonordervars>>

\* updateArticle: findByIdAndUpdate with runValidators; 404 when nothing is stored
UpdateArticle(a, price) ==
    /\ OrderStarted
    /\ LET r == [IdleOrderReq EXCEPT !.op = "updateArticle", !.article = a, !.price = price]
       IN IF price < 0
          THEN /\ Article' = Article
               /\ oreq' = OrderRespond(r, 500, "Error updating article")
          ELSE IF Article[a] < 0
          THEN /\ Article' = Article
               /\ oreq' = OrderRespond(r, 404, "Article not found")
          ELSE /\ Article' = [Article EXCEPT ![a] = price]
               /\ oreq' = OrderRespond(r, 200, "")
    /\ UNCHANGED <<Order, nonordervars>>

\* deleteArticle: findByIdAndDelete; 404 when nothing is stored
DeleteArticle(a) ==
    /\ OrderStarted
    /\ LET r == [IdleOrderReq EXCEPT !.op = "deleteArticle", !.article = a]
       IN IF Article[a] < 0
          THEN /\ Article' = Article
               /\ oreq' = OrderRespond(r, 404, "Article not found")
          ELSE /\ Article' = [Article EXCEPT ![a] = DeletedArticle]
               /\ oreq' = OrderRespond(r, 200, "")
    /\ UNCHANGED <<Order, nonordervars>>

\* createOrder up to its first await and the reduce after it: the prices are looked
\* up, and the total is computed or the reduce throws and the catch answers 500
CreateOrderFind(u, items) ==
    /\ OrderStarted
    /\ LET r == [IdleOrderReq EXCEPT !.op = "createOrder", !.user = u, !.items = items,
                                     !.id = calls']
       IN IF PriceNotFound(items, articlePriceMap)
          THEN oreq' = OrderRespond(r, 500, "Price not found")
          ELSE oreq' = [r EXCEPT !.pc = "order_save",
                                 !.totalAmount = TotalAmount(items, articlePriceMap)]
    /\ UNCHANGED <<Article, Order, nonordervars>>

\* createOrder from order.save(): the order is stored with status pending, 201;
\* a save that throws stores nothing and the catch answers 500
CreateOrderSave(ok) ==
    /\ oreq.pc = "order_save"
    /\ IF ok
       THEN /\ Order' = Order \cup {[id |-> oreq.id, user |-> oreq.user,
                                     items |-> oreq.items,
                                     totalAmount |-> oreq.totalAmount,
                                     status |-> "pending"]}
            /\ oreq' = OrderRespond(oreq, 201, "")
       ELSE /\ Order' = Order
            /\ oreq' = OrderRespond(oreq, 500, "save failed")
    /\ UNCHANGED <<Article, calls, nonordervars>>

\* deleteOrder: findOneAndDelete by id and user; null answers 404
DeleteOrder(id, u) ==
    /\ OrderStarted
    /\ LET r == [IdleOrderReq EXCEPT !.op = "deleteOrder", !.user = u, !.id = id]
           found == {o \in Order : OrderMatches(o, id, u)}
       IN IF found = {}
          THEN /\ Order' = Order
               /\ oreq' = OrderRespond(r, 404, "Order not found or unauthorized")
          ELSE /\ Order' = Order \ found
               /\ oreq' = OrderRespond(r, 200, "")
    /\ UNCHANGED <<Article, nonordervars>>

CreateArticleCall == \E a \in Articles, price \in PriceInputs : CreateArticle(a, price)
UpdateArticleCall == \E a \in Articles, price \in PriceInputs : UpdateArticle(a, price)
DeleteArticleCall == \E a \in Articles : DeleteArticle(a)
CreateOrderFindCall == \E u \in OrderUsers, items \in ItemInputs : CreateOrderFind(u, items)
CreateOrderSaveStep == \E ok \in BOOLEAN : CreateOrderSave(ok)
DeleteOrderCall == \E id \in 1..MaxOrderCalls, u \in OrderUsers : DeleteOrder(id, u)

OrderNext ==
    \/ CreateArticleCall
    \/ UpdateArticleCall
    \/ DeleteArticleCall
    \/ CreateOrderFindCall
    \/ CreateOrderSaveStep
    \/ DeleteOrderCall

\* sequences of order and article requests, one at a time
OrderSpec == Init /\ [][OrderNext]_vars


\* ---------------------------------------------------------------- properties
\* no request is between two awaits
Quiescent == \A s \in Slots : ~InFlight(s)

\* the delivery times of a roster, in roster order
TimesOf(members) == [i \in DOMAIN members |-> members[i].deliveryTime]

\* position of a delivery time in the order Morning, Afternoon, Evening
Rank(t) == IF t = "Morning" THEN 1 ELSE IF t = "Afternoon" THEN 2 ELSE 3

\* the step is the arrival of a request of handler name in slot r
Arrives(r, name) == calls' = calls + 1 /\ req'[r].pc # "idle" /\ req'[r].op = name
                    /\ (req[r].pc \in {"idle", "done"})
                    /\ \A s \in Slots \ {r} : req'[s] = req[s]

\* C1: after any sequence of createCommunity, join, leave and vote calls without an
\* updatePreferences call, every community with a non-empty roster has
\* preferences.deliveryTime equal to the plurality winner over its members' choices.
C1_PreferencesFollowRoster ==
    (Quiescent /\ ~overridden) =>
        \A c \in Communities :
            (Community[c].exists /\ Community[c].members # << >>) =>
                Community[c].preferences.deliveryTime = MostPopularTime(Community[c].members)

\* C2: on every roster the recomputation stores a delivery time whose count is
\* maximal and which is the earliest, in the order Morning, Afternoon, Evening, of
\* those with that count; the three rosters the claim names give Morning, Afternoon
\* and Evening.
C2_PluralityWinner ==
    tFresh =>
        LET m == tDoc.members
            w == tDoc.preferences.deliveryTime
        IN /\ w \in DeliveryTimes
           /\ \A t \in DeliveryTimes : TimeCount(m, t) <= TimeCount(m, w)
           /\ \A t \in DeliveryTimes : TimeCount(m, t) = TimeCount(m, w) => Rank(w) <= Rank(t)
           /\ TimesOf(m) = <<"Morning", "Morning", "Evening">> => w = "Morning"
           /\ TimesOf(m) = <<"Afternoon", "Afternoon", "Evening", "Evening">> => w = "Afternoon"
           /\ TimesOf(m) = <<"Evening", "Evening", "Morning">> => w = "Evening"

\* a recomputed roster of four with Afternoon and Evening tied at two
C2_Witness ==
    /\ tFresh
    /\ TimesOf(tDoc.members) = <<"Afternoon", "Afternoon", "Evening", "Evening">>
    /\ tDoc.preferences.deliveryTime = "Afternoon"


\* no user has two entries in the roster
RosterUnique(members) ==
    \A i, j \in DOMAIN members : members[i].user = members[j].user => i = j

\* C3: a join by a user who is in the roster of the (existing) community, or whose
\* community reference is not null, is answered 400 and changes no roster, no
\* preferences and no user's community reference; no roster ever holds a user twice.
C3_RejectedJoinChangesNothing ==
    /\ [][\A r \in Slots :
            LET c == req'[r].community
                u == req'[r].user
            IN /\ (/\ Arrives(r, "join")
                   /\ Community[c].exists
                   /\ IsMember(Community[c].members, u))
                  => (req'[r].pc = "done" /\ req'[r].status = 400 /\ UNCHANGED dbvars)
               /\ (/\ Arrives(r, "join")
                   /\ Community[c].exists
                   /\ ~IsMember(Community[c].members, u)
                   /\ User[u].community # Null)
                  => (req'[r].pc = "join_user" /\ UNCHANGED dbvars)
               /\ (/\ req[r].pc = "join_user"
                   /\ req'[r] # req[r]
                   /\ User[req[r].user].community # Null)
                  => (req'[r].pc = "done" /\ req'[r].status = 400 /\ UNCHANGED dbvars)
         ]_vars
    /\ [](\A c \in Communities : RosterUnique(Community[c].members))

\* a join to a community answered 400 for a user whose reference points to another
\* community, and a join answered 400 for a user in the roster
C3_Witness ==
    LET r == 1
    IN /\ req[r].op = "join" /\ req[r].pc = "done" /\ req[r].status = 400
       /\ User[req[r].user].community \notin {Null, req[r].community}
       /\ ~IsMember(Community[req[r].community].members, req[r].user)
       /\ Community[req[r].community].members # << >>

\* C4: after any sequence of createCommunity, join and leave calls no user is in the
\* rosters of two communities.
C4_OneCommunityPerUser ==
    Quiescent =>
        \A u \in Users : \A c, d \in Communities :
            (IsMember(Community[c].members, u) /\ IsMember(Community[d].members, u)) => c = d

\* C5: a user's community reference is c exactly when the user has an entry in the
\* roster of c.
C5_ReferenceMatchesRoster ==
    Quiescent =>
        \A u \in Users : \A c \in Communities :
            (User[u].community = c) <=> IsMember(Community[c].members, u)

\* C6: during and after a join that passed its checks, the roster entry and the
\* user's community reference are both present or both absent.
C6_JoinWritesTogether ==
    \A r \in Slots :
        (/\ req[r].op = "join"
         /\ \/ req[r].pc \in {"join_user_save", "join_save"}
            \/ req[r].pc = "done" /\ req[r].status \in {200, 500})
        => LET inRoster == IsMember(Community[req[r].community].members, req[r].user)
               referred == User[req[r].user].community = req[r].community
           IN inRoster <=> referred

\* C7: when two votes of two members of one community ran concurrently and both were
\* answered 200, the roster holds both choices and preferences.deliveryTime is the
\* plurality winner over that roster.
C7_ConcurrentVotesBothLand ==
    \A r, s \in Slots :
        (/\ r # s
         /\ s \in overlap[r]
         /\ req[r].op = "vote" /\ req[r].pc = "done" /\ req[r].status = 200
         /\ req[s].op = "vote" /\ req[s].pc = "done" /\ req[s].status = 200
         /\ req[r].community = req[s].community
         /\ req[r].user # req[s].user)
        => LET community == Community[req[r].community]
               m == community.members
           IN /\ \E i \in DOMAIN m :
                    m[i].user = req[r].user /\ m[i].deliveryTime = req[r].time
              /\ \E i \in DOMAIN m :
                    m[i].user = req[s].user /\ m[i].deliveryTime = req[s].time
              /\ community.preferences.deliveryTime = MostPopularTime(m)

\* C8: under any interleaving of join, leave and vote calls no roster holds two
\* entries of one user.
C8_NoDuplicateMembers ==
    \A c \in Communities :
        \A i, j \in DOMAIN Community[c].members :
            i # j => Community[c].members[i].user # Community[c].members[j].user

\* C9: a vote by a user with no entry in the roster of the (existing) community is
\* answered 403 and changes neither the roster nor the preferences.
C9_NonMemberVoteForbidden ==
    [][\A r \in Slots :
          (/\ Arrives(r, "vote")
           /\ Community[req'[r].community].exists
           /\ ~IsMember(Community[req'[r].community].members, req'[r].user))
          => (/\ req'[r].pc = "done"
              /\ req'[r].status = 403
              /\ Community' = Community)
      ]_vars

\* a vote answered 403 on a community whose roster has members
C9_Witness ==
    LET r == 1
    IN /\ req[r].op = "vote" /\ req[r].pc = "done" /\ req[r].status = 403
       /\ req[r].time \in DeliveryTimes
       /\ Len(Community[req[r].community].members) >= 2
       /\ ~IsMember(Community[req[r].community].members, req[r].user)

\* C10: a vote answered 200 has set the deliveryTime of the voter's entry to the
\* choice, kept the members and every other entry, kept deliveryDay, and left
\* preferences.deliveryTime the plurality winner over the roster it leaves.
C10_VoteFrame ==
    [][\A r \in Slots :
          (/\ req[r].op = "vote" /\ req[r].pc = "vote_save"
           /\ req'[r].pc = "done" /\ req'[r].status = 200)
          => LET c == req[r].community
                 old == Community[c]
                 new == Community'[c]
             IN /\ DOMAIN new.members = DOMAIN old.members
                /\ \E i \in DOMAIN old.members :
                      /\ old.members[i].user = req[r].user
                      /\ new.members[i] = [user |-> req[r].user, deliveryTime |-> req[r].time]
                      /\ \A j \in DOMAIN old.members \ {i} : new.members[j] = old.members[j]
                /\ new.preferences.deliveryDay = old.preferences.deliveryDay
                /\ new.preferences.deliveryTime = MostPopularTime(new.members)
                /\ \A d \in Communities \ {c} : Community'[d] = Community[d]
                /\ User' = User
      ]_vars

\* a vote answered 200 that moved the community's delivery time off a member's choice
C10_Witness ==
    LET r == 1
        community == Community[req[r].community]
    IN /\ req[r].op = "vote" /\ req[r].pc = "done" /\ req[r].status = 200
       /\ Len(community.members) >= 2
       /\ community.preferences.deliveryTime = req[r].time
       /\ \E i \in DOMAIN community.members :
             community.members[i].deliveryTime # req[r].time
       /\ req[r].delta.at # 0 /\ req[r].delta.setTime


\* the entries of a roster that are not the user's
Others(members, u) == SelectSeq(members, LAMBDA m : m.user # u)

\* C11: a leave by a member stores the roster without that member's entry and with
\* every other entry as it was; with members left, the leave answered 200 has stored
\* the plurality winner over them as preferences.deliveryTime and kept deliveryDay;
\* with none left the community still exists with its preferences as they were.
C11_LeaveRemovesMember ==
    [][\A r \in Slots :
          LET c == req[r].community
              old == Community[c]
              new == Community'[c]
          IN /\ (/\ req[r].op = "leave" /\ req[r].pc = "leave_save"
                 /\ IsMember(old.members, req[r].user)
                 /\ req'[r].pc \in {"leave_update", "done"}
                 /\ req'[r].pc = "done" => req'[r].status = 200)
                => (/\ new.exists
                    /\ new.members = Others(old.members, req[r].user)
                    /\ new.preferences = old.preferences
                    /\ (req'[r].pc = "done") <=> (new.members = << >>))
             /\ (/\ req[r].op = "leave" /\ req[r].pc = "leave_update"
                 /\ req'[r].pc = "done" /\ req'[r].status = 200)
                => (/\ new.members = old.members
                    /\ new.members # << >>
                    /\ new.preferences.deliveryDay = old.preferences.deliveryDay
                    /\ new.preferences.deliveryTime = MostPopularTime(new.members))
      ]_vars

\* a leave answered 200 that removed a member from a roster of two and moved the
\* community's delivery time to the remaining member's choice
C11_Witness ==
    LET r == 1
        community == Community[req[r].community]
    IN /\ req[r].op = "leave" /\ req[r].pc = "done" /\ req[r].status = 200
       /\ IsMember(req[r].loaded.members, req[r].user)
       /\ Len(req[r].loaded.members) = 2
       /\ Len(community.members) = 1
       /\ community.preferences.deliveryTime # req[r].loaded.preferences.deliveryTime
       /\ community.preferences.deliveryTime = community.members[1].deliveryTime

\* C12 as claimed: a leave by a user who is not in the roster ends with the roster
\* and the preferences of the community as they were when it arrived.
C12_NonMemberLeaveNoOp ==
    \A r \in Slots :
        (/\ req[r].op = "leave" /\ req[r].pc = "done"
         /\ req[r].loaded.exists
         /\ ~IsMember(req[r].loaded.members, req[r].user))
        => (/\ req[r].status \in {200, 500}
            /\ Community[req[r].community].members = req[r].loaded.members
            /\ Community[req[r].community].preferences = req[r].loaded.preferences)

\* C12 as amended: a leave by a user who is not in the roster is no error and keeps
\* the roster and deliveryDay; answered 200 on a non-empty roster it has stored the
\* plurality winner over the roster as preferences.deliveryTime, and otherwise the
\* preferences are as they were.
C12_NonMemberLeaveRecomputes ==
    \A r \in Slots :
        (/\ req[r].op = "leave" /\ req[r].pc = "done"
         /\ req[r].loaded.exists
         /\ ~IsMember(req[r].loaded.members, req[r].user))
        => LET community == Community[req[r].community]
           IN /\ req[r].status \in {200, 500}
              /\ community.members = req[r].loaded.members
              /\ community.preferences.deliveryDay = req[r].loaded.preferences.deliveryDay
              /\ (req[r].status = 200 /\ community.members # << >>)
                 => community.preferences.deliveryTime = MostPopularTime(community.members)
              /\ (req[r].status = 500 \/ community.members = << >>)
                 => community.preferences = req[r].loaded.preferences

\* a leave by a non-member answered 200 after an updatePreferences call, with the
\* stored delivery time no longer the one the override had set
C12_Witness ==
    LET r == 1
        community == Community[req[r].community]
    IN /\ req[r].op = "leave" /\ req[r].pc = "done" /\ req[r].status = 200
       /\ overridden
       /\ ~IsMember(req[r].loaded.members, req[r].user)
       /\ community.members = req[r].loaded.members
       /\ community.preferences.deliveryTime # req[r].loaded.preferences.deliveryTime

\* C13: when a join answered 200 is followed by a leave of the same user from the
\* same community, the roster the leave stores is the roster the join found: the same
\* members in the same order with the same choices, and the user not among them.
C13_JoinThenLeaveRestores ==
    [][\A r \in Slots :
          (/\ req[r].op = "leave" /\ req[r].pc = "leave_save"
           /\ joined.community = req[r].community
           /\ joined.user = req[r].user
           /\ req'[r].pc \in {"leave_update", "done"}
           /\ req'[r].pc = "done" => req'[r].status = 200)
          => (/\ Community'[req[r].community].members = joined.members
              /\ ~IsMember(Community'[req[r].community].members, req[r].user))
      ]_vars

\* a leave answered 200 right after the same user's join, on a roster whose other
\* member had voted Evening, with the roster back to that one member
C13_Witness ==
    LET r == 1
    IN /\ req[r].op = "leave" /\ req[r].pc = "done" /\ req[r].status = 200
       /\ joined.community = req[r].community
       /\ joined.user = req[r].user
       /\ Len(joined.members) = 1
       /\ joined.members[1].deliveryTime = "Evening"
       /\ Len(req[r].loaded.members) = 2
       /\ Community[req[r].community].members = joined.members

\* every item's article is stored in the catalog
AllInCatalog(items) == \A i \in DOMAIN items : Article[items[i].article] >= 0

\* C14 as claimed: a createOrder call with a non-empty items sequence whose articles
\* are all in the catalog, at any price of 0 or more, ends with 201 and a stored
\* order with status pending and totalAmount the sum of price times quantity over
\* the items (a save that throws apart).
C14_OrderTotal ==
    (/\ oreq.op = "createOrder" /\ oreq.pc = "done"
     /\ oreq.items # << >>
     /\ AllInCatalog(oreq.items))
    => \/ oreq.status = 500 /\ oreq.error = "save failed"
       \/ /\ oreq.status = 201
          /\ \E o \in Order :
                /\ o.id = oreq.id /\ o.user = oreq.user /\ o.items = oreq.items
                /\ o.status = "pending"
                /\ o.totalAmount = TotalAmount(oreq.items, Article)

\* C15: a createOrder call with an item whose article is not in the catalog ends
\* in that step with 500, and the stored orders are the ones stored before it.
C15_MissingArticleFails ==
    [][(/\ calls' = calls + 1
        /\ oreq'.op = "createOrder"
        /\ ~AllInCatalog(oreq'.items))
       => (/\ oreq'.pc = "done" /\ oreq'.status = 500
           /\ oreq'.error = "Price not found"
           /\ Order' = Order)
      ]_vars

\* a createOrder answered 500 whose first item is in the catalog at a price above 0
\* and whose second is not, with an earlier order still stored
C15_Witness ==
    /\ oreq.op = "createOrder" /\ oreq.pc = "done" /\ oreq.status = 500
    /\ Len(oreq.items) = 2
    /\ Article[oreq.items[1].article] > 0
    /\ Article[oreq.items[2].article] < 0
    /\ Order # {}
    /\ \A o \in Order : o.id # oreq.id

\* C16: deleteOrder removes the order with the given id when its user is the caller
\* and answers 200; in every other case it removes nothing and answers 404 with the
\* one message, whether an order with that id is stored or not.
C16_DeleteOnlyByOwner ==
    [][(/\ calls' = calls + 1
        /\ oreq'.op = "deleteOrder")
       => LET owned == {o \in Order : o.id = oreq'.id /\ o.user = oreq'.user}
          IN /\ oreq'.pc = "done"
             /\ owned # {} => (oreq'.status = 200 /\ Order' = Order \ owned)
             /\ owned = {} => (/\ oreq'.status = 404
                               /\ oreq'.error = "Order not found or unauthorized"
                               /\ Order' = Order)
      ]_vars

\* a deleteOrder answered 404 to a user who does not own the order of that id,
\* which is still stored
C16_Witness ==
    /\ oreq.op = "deleteOrder" /\ oreq.pc = "done" /\ oreq.status = 404
    /\ \E o \in Order : o.id = oreq.id /\ o.user # oreq.user

\* the request of slot r commits its save at pc from with 200 in this step
Commits(r, from) ==
    req[r].pc = from /\ req'[r].pc = "done" /\ req'[r].status = 200

C18_InvalidVoteRejected ==
    \A r \in Slots :
        (/\ req[r].op = "vote" /\ req[r].pc = "done"
         /\ req[r].time \notin DeliveryTimes
         /\ IsMember(req[r].loaded.members, req[r].user))
        => (/\ req[r].status = 400
            /\ Community[req[r].community].members = req[r].loaded.members
            /\ Community[req[r].community].preferences = req[r].loaded.preferences)

\* C19: a user's community reference, once set, is the same in every later state,
\* and is the community of the user's first join answered 200; a join by a user with
\* such a join behind them is answered 400 at the check of the reference with
\* nothing stored, and no join answered 200 is by such a user.
C19_ReferenceNeverCleared ==
    /\ [](\A u \in Users : firstJoined[u] # Null => User[u].community = firstJoined[u])
    /\ [][/\ \A u \in Users :
                User[u].community # Null => User'[u].community = User[u].community
          /\ \A r \in Slots :
                /\ (/\ req[r].op = "join" /\ req[r].pc = "join_user"
                    /\ firstJoined[req[r].user] # Null
                    /\ req'[r] # req[r])
                   => (req'[r].pc = "done" /\ req'[r].status = 400 /\ UNCHANGED dbvars)
                /\ Commits(r, "join_save") => firstJoined[req[r].user] = Null
         ]_vars

\* a join answered 400 to a user who had joined the same community and left it: the
\* reference still points to it and the user is not in its roster
C19_Witness ==
    LET r == 1
    IN /\ req[r].op = "join" /\ req[r].pc = "done" /\ req[r].status = 400
       /\ firstJoined[req[r].user] = req[r].community
       /\ User[req[r].user].community = req[r].community
       /\ Community[req[r].community].exists
       /\ ~IsMember(Community[req[r].community].members, req[r].user)

====
